---- MODULE Spec2Model ----
(***************************************************************************)
(* Chunked weight-encryption relay (scripts/N6_encrypt/c/Weights_encryption)*)
(*                                                                         *)
(*   nanopb_mybindings/pb_to_uart.c   framing layer, UART callbacks        *)
(*   nanopb_mybindings/client.c       dispatcher and encryption pipeline   *)
(*   FSBL/Core/Src/encrypt.c          cipher invocation                    *)
(*                                                                         *)
(* The main loop is one thread whose position is pc; the two UART          *)
(* completion callbacks are interrupts that may run between any two of its *)
(* steps.  A handler is cut only where an interrupt can change what the    *)
(* rest of the handler reads or overwrites: after a DMA transfer has been  *)
(* started and before the flag write that follows it.                      *)
(***************************************************************************)
EXTENDS Naturals, Sequences, FiniteSets, TLC

\* Number of frames the host sends in one run.
MaxFrames == 3

\* Number of client_send_raw_data calls in one run.
MaxSends == 2

\* pb_to_uart.h: MULTIPLE_TT(4111)
MULTIPLE_TT(a) == ((a \div 32) + 1) * 32
I_STREAM_SIZE_BYTES == MULTIPLE_TT(4111)
O_STREAM_SIZE_BYTES == MULTIPLE_TT(4111)

\* A length header larger than the receive buffer (Scenario D).
OversizeLen == I_STREAM_SIZE_BYTES + 872

VARIABLES
    pc,                      \* position of the main loop
    rx_ready,                \* encryption_pipeline_desc.rx_ready
    processing_done,         \* encryption_pipeline_desc.processing_done
    rx_shadow_buffer_ready,  \* encryption_pipeline_desc.rx_shadow_buffer_ready
    tx_shadow_buffer_ready,  \* encryption_pipeline_desc.tx_shadow_buffer_ready
    current_cmd,             \* NONE / ENCRYPT / SET_KEYS
    rx_msg, tx_msg,          \* MyMessage rx_msg, tx_msg
    buffered_chunk, current_chunk,
    enc_p,                   \* encryption_keys, encryption_rounds
    s_keys, s_nbrounds,      \* encrypt.c statics
    rx_buffered_raw_data, tx_buffered_raw_data,
    rx_status,               \* receiving_len, receiving_pb, dma_complete, command_ready, xfer_len
    uart_status,             \* rtr, rts
    input_stream_buffer,
    rx_dma,                  \* bytes the armed receive transfer waits for (0: none armed)
    tx_dma,                  \* the payload transmit in progress
    line,                    \* bytes the host has put on the line, not yet received
    wire,                    \* what the relay has put on the line
    host_sent,               \* frames the host has sent
    host_ok,                 \* the host has sent every frame after the Ack of the previous one
    tx_log,                  \* one entry per uart_write_packet call, with the number of
                             \* RawData decoded and the key installed when it was made
    decoded_seq,             \* chunk_no of every RawData dispatched, in order
    staged_seq,              \* descriptor of every chunk staged, in order
    rx_shadow_chunks,        \* chunks staged and not completed
    tx_shadow_chunks,        \* chunks dispatched and not completed
    drained                  \* chunks whose completion switched the LEDs off

vars == << pc, rx_ready, processing_done, rx_shadow_buffer_ready, tx_shadow_buffer_ready,
           current_cmd, rx_msg, tx_msg, buffered_chunk, current_chunk, enc_p, s_keys,
           s_nbrounds, rx_buffered_raw_data, tx_buffered_raw_data, rx_status, uart_status,
           input_stream_buffer, rx_dma, tx_dma, line, wire, host_sent, host_ok, tx_log,
           decoded_seq, staged_seq, rx_shadow_chunks, tx_shadow_chunks, drained >>

pipeline_vars == << rx_ready, processing_done, rx_shadow_buffer_ready, tx_shadow_buffer_ready >>
chunk_vars    == << buffered_chunk, current_chunk, rx_buffered_raw_data, tx_buffered_raw_data >>
key_vars      == << enc_p, s_keys, s_nbrounds >>
rx_hw_vars    == << input_stream_buffer, rx_dma, line >>
tx_hw_vars    == << tx_dma, wire, tx_log >>
host_vars     == << host_sent, host_ok >>
ghost_vars    == << decoded_seq, staged_seq, rx_shadow_chunks, tx_shadow_chunks, drained >>

----------------------------------------------------------------------------
(* Messages *)

ZeroKeys == << 0, 0, 0, 0 >>

\* The bytes of a chunk: the plaintext the host sent as chunk id, or what the cipher
\* made of it under a key pair for a destination address, with the transfer length
\* the cipher was programmed with.
NoKey  == << [ msb |-> 0, lsb |-> 0 ], [ msb |-> 0, lsb |-> 0 ] >>
NoData == [ id |-> 0, enc |-> FALSE, key |-> NoKey, addr |-> 0, len |-> 0 ]
Plain(n) == [ NoData EXCEPT !.id = n ]

\* A zero-initialised MyMessage (which_payload 0, first enumerator).
ZeroMsg ==
    [ which |-> "none", stat |-> "FIRST_CHUNK", chunk_no |-> 0, base_address |-> 0,
      size |-> 0, data |-> NoData, keys |-> ZeroKeys, nb_rounds |-> 0 ]

AckMsg == [ ZeroMsg EXCEPT !.which = "ack" ]

ZeroChunk ==
    [ chunk_no |-> 0, base_addr |-> 0, chunk_size |-> 0, is_last |-> FALSE, gid |-> 0 ]

\* Key words of the two sessions: Scenario A's, and words at the ends of the range.
KeySets   == { << 1, 2, 3, 4 >>, << 2147483647, 0, 65536, 1 >> }
RoundsSet == { 10 }
Statuses  == { "FIRST_CHUNK", "LAST_CHUNK" }
\* base_address and payload size of the chunks the host sends
Placements == { << 4096, 64 >>, << 8192, 60 >> }
\* and of a chunk whose base_address is not a multiple of 8
UnalignedPlacement == << 4100, 60 >>

\* The frames the host may send as its n-th frame; chunk_no names the frame.  ZeroMsg
\* is a message with no payload member (only fields the decoder skips).
HostFrames(n) ==
    { [ ZeroMsg EXCEPT !.which = "encryption_params", !.keys = k, !.nb_rounds = r ] :
        k \in KeySets, r \in RoundsSet }
    \cup
    { [ ZeroMsg EXCEPT !.which = "raw_data", !.stat = s, !.chunk_no = n,
                       !.base_address = p[1], !.size = p[2], !.data = Plain(n) ] :
        s \in Statuses, p \in Placements }
    \cup { [ ZeroMsg EXCEPT !.which = "raw_data", !.chunk_no = n,
                             !.base_address = UnalignedPlacement[1],
                             !.size = UnalignedPlacement[2], !.data = Plain(n) ] }
    \cup { AckMsg }
    \cup { ZeroMsg }
    \cup { [ ZeroMsg EXCEPT !.which = "malformed" ] }
    \cup { [ ZeroMsg EXCEPT !.which = "oversize" ] }

\* Bytes pb_encode writes for a message (tags, lengths and values).
EncodedLen(m) ==
    CASE m.which = "ack"               -> 2
      [] m.which = "encryption_params" -> 12
      [] m.which = "raw_data"          -> m.size + 14
      [] m.which = "oversize"          -> OversizeLen
      [] m.which = "raw_data_fields"   -> m.len
      [] OTHER                         -> 3

----------------------------------------------------------------------------
(* State after init_uart_pb() and init_pb() *)

NoFrame == [ ZeroMsg EXCEPT !.which = "nothing" ]

Init ==
    /\ pc = "start"
    /\ rx_ready = FALSE
    /\ processing_done = FALSE
    /\ rx_shadow_buffer_ready = TRUE
    /\ tx_shadow_buffer_ready = TRUE
    /\ current_cmd = "NONE"
    /\ rx_msg = ZeroMsg
    /\ tx_msg = ZeroMsg
    /\ buffered_chunk = ZeroChunk
    /\ current_chunk = ZeroChunk
    /\ enc_p = [ encryption_keys |-> ZeroKeys, encryption_rounds |-> 0 ]
    /\ s_keys = NoKey
    /\ s_nbrounds = 0
    /\ rx_buffered_raw_data = [ size |-> 0, data |-> NoData ]
    /\ tx_buffered_raw_data = [ size |-> 0, data |-> NoData ]
    /\ rx_status = [ receiving_len |-> FALSE, receiving_pb |-> FALSE, dma_complete |-> FALSE,
                     command_ready |-> FALSE, xfer_len |-> 0 ]
    /\ uart_status = [ rtr |-> TRUE, rts |-> TRUE ]
    /\ input_stream_buffer = [ hdr |-> 0, frame |-> NoFrame, intact |-> FALSE ]
    /\ rx_dma = 0
    /\ tx_dma = [ busy |-> FALSE, frame |-> NoFrame ]
    /\ line = << >>
    /\ wire = << >>
    /\ host_sent = 0
    /\ host_ok = TRUE
    /\ tx_log = << >>
    /\ decoded_seq = << >>
    /\ staged_seq = << >>
    /\ rx_shadow_chunks = { }
    /\ tx_shadow_chunks = { }
    /\ drained = << >>

----------------------------------------------------------------------------
(* The UART as the HAL drives it *)

\* HAL_UART_Receive_DMA(&huart1, input_stream_buffer, n): arms a receive of n bytes;
\* refused (HAL_BUSY) while a receive is armed.
HAL_UART_Receive_DMA(n) == IF rx_dma = 0 THEN n ELSE rx_dma

\* uart_write_packet up to and including HAL_UART_Transmit_DMA: the 4-byte length is
\* sent blocking, then the payload transfer is started.  Both HAL calls are refused
\* (HAL_BUSY) while a payload transmit is in progress.
UartWriteStart(frame, by) ==
    /\ tx_log' = Append(tx_log, [ frame |-> frame, rts |-> uart_status.rts,
                                  busy |-> tx_dma.busy, by |-> by,
                                  decoded |-> Len(decoded_seq), keys |-> s_keys ])
    /\ IF tx_dma.busy
       THEN UNCHANGED << tx_dma, wire >>
       ELSE /\ tx_dma' = [ busy |-> TRUE, frame |-> frame ]
            /\ wire' = Append(wire, [ u |-> "len", len |-> EncodedLen(frame), frame |-> NoFrame ])

\* The payload transmit completes and HAL_UART_TxCpltCallback runs.
HAL_UART_TxCpltCallback ==
    /\ tx_dma.busy
    /\ tx_dma' = [ busy |-> FALSE, frame |-> NoFrame ]
    /\ wire' = Append(wire, [ u |-> "pb", len |-> EncodedLen(tx_dma.frame), frame |-> tx_dma.frame ])
    /\ uart_status' = [ uart_status EXCEPT !.rts = TRUE ]
    /\ UNCHANGED << pc, pipeline_vars, current_cmd, rx_msg, tx_msg, chunk_vars, key_vars,
                    rx_status, rx_hw_vars, tx_log, host_vars, ghost_vars >>

\* What the armed transfer leaves in input_stream_buffer: a length header overwrites
\* the first four bytes of whatever frame is there, a payload replaces it.
Received(unit) ==
    IF unit.u = "len"
    THEN [ hdr |-> unit.len, frame |-> input_stream_buffer.frame, intact |-> FALSE ]
    ELSE [ hdr |-> 0, frame |-> unit.frame, intact |-> TRUE ]

\* Faulty variant: the callback leaves rtr as it is.
RxCpltRtr_Kept == uart_status.rtr

\* HAL_UART_RxCpltCallback line 72: the value written to uart_status.rtr.
RxCpltRtr == FALSE

\* Faulty variant: the callback marks the command ready itself.
HAL_UART_RxCpltCallback_MarksReady ==
    /\ rx_dma # 0
    /\ line # << >>
    /\ rx_dma = (IF Head(line).u = "len" THEN 4 ELSE Head(line).len)
    /\ input_stream_buffer' = Received(Head(line))
    /\ line' = Tail(line)
    /\ rx_dma' = 0
    /\ rx_status' = [ rx_status EXCEPT !.dma_complete = TRUE, !.command_ready = TRUE ]
    /\ uart_status' = [ uart_status EXCEPT !.rtr = RxCpltRtr ]
    /\ UNCHANGED << pc, pipeline_vars, current_cmd, rx_msg, tx_msg, chunk_vars, key_vars,
                    tx_hw_vars, host_vars, ghost_vars >>

\* The armed receive transfer has got all its bytes and HAL_UART_RxCpltCallback runs.
HAL_UART_RxCpltCallback ==
    /\ rx_dma # 0
    /\ line # << >>
    /\ rx_dma = (IF Head(line).u = "len" THEN 4 ELSE Head(line).len)
    /\ input_stream_buffer' = Received(Head(line))
    /\ line' = Tail(line)
    /\ rx_dma' = 0
    /\ rx_status' = [ rx_status EXCEPT !.dma_complete = TRUE ]
    /\ uart_status' = [ uart_status EXCEPT !.rtr = RxCpltRtr ]
    /\ UNCHANGED << pc, pipeline_vars, current_cmd, rx_msg, tx_msg, chunk_vars, key_vars,
                    tx_hw_vars, host_vars, ghost_vars >>

\* Ack frames the host has received.
AcksReceived == Cardinality({ i \in 1..Len(wire) : wire[i].u = "pb" /\ wire[i].frame.which = "ack" })

\* The host writes a frame: its 4-byte length, then its bytes.
HostSend ==
    /\ host_sent < MaxFrames
    /\ \E f \in HostFrames(host_sent + 1) :
         line' = line \o << [ u |-> "len", len |-> EncodedLen(f), frame |-> NoFrame ],
                            [ u |-> "pb", len |-> EncodedLen(f), frame |-> f ] >>
    /\ host_sent' = host_sent + 1
    /\ host_ok' = (host_ok /\ AcksReceived >= host_sent)
    /\ UNCHANGED << pc, pipeline_vars, current_cmd, rx_msg, tx_msg, chunk_vars, key_vars,
                    rx_status, uart_status, input_stream_buffer, rx_dma, tx_hw_vars, ghost_vars >>

----------------------------------------------------------------------------
(* Framing layer: pb_to_uart.c *)

\* client_rx_command_len(), called once before the loop starts.
client_rx_command_len ==
    /\ pc = "start"
    /\ rx_status' = [ rx_status EXCEPT !.receiving_len = TRUE ]
    /\ rx_dma' = HAL_UART_Receive_DMA(4)
    /\ pc' = "handle_uart"
    /\ UNCHANGED << pipeline_vars, current_cmd, rx_msg, tx_msg, chunk_vars, key_vars,
                    uart_status, input_stream_buffer, line, tx_hw_vars, host_vars, ghost_vars >>

\* handle_uart, the length branch (lines 93-101): the four bytes received are the
\* length of the frame, and a transfer of that many bytes is armed.
HandleUartLen ==
    LET len == input_stream_buffer.hdr IN
    /\ rx_status' = [ rx_status EXCEPT !.xfer_len = len, !.receiving_len = FALSE,
                                       !.receiving_pb = TRUE ]
    /\ rx_dma' = HAL_UART_Receive_DMA(len)
    /\ uart_status' = [ uart_status EXCEPT !.rtr = FALSE ]

\* Faulty variant: the payload branch marks the command ready but stays in the payload phase
\* and arms nothing.
HandleUartPb_NoRearm ==
    /\ rx_status' = [ rx_status EXCEPT !.command_ready = TRUE ]
    /\ rx_dma' = rx_dma
    /\ uart_status' = [ uart_status EXCEPT !.rtr = FALSE ]

\* handle_uart, the payload branch (lines 102-111): the command is ready and a
\* 4-byte length transfer is armed for the next frame.
HandleUartPb ==
    /\ rx_status' = [ rx_status EXCEPT !.command_ready = TRUE, !.receiving_pb = FALSE,
                                       !.receiving_len = TRUE ]
    /\ rx_dma' = HAL_UART_Receive_DMA(4)
    /\ uart_status' = [ uart_status EXCEPT !.rtr = FALSE ]

\* Faulty variant: handle_uart acknowledges a frame as soon as its payload is received.
handle_uart_AcksPayload ==
    /\ pc = "handle_uart"
    /\ IF rx_status.dma_complete
       THEN /\ IF rx_status.receiving_len THEN HandleUartLen /\ UNCHANGED tx_hw_vars
               ELSE IF rx_status.receiving_pb
                    THEN HandleUartPb /\ UartWriteStart(AckMsg, "handle_uart")
               ELSE UNCHANGED << rx_status, rx_dma, uart_status, tx_hw_vars >>
            /\ pc' = "hu_clear"
       ELSE /\ pc' = "handle_commands"
            /\ UNCHANGED << rx_status, rx_dma, uart_status, tx_hw_vars >>
    /\ UNCHANGED << pipeline_vars, current_cmd, rx_msg, tx_msg, chunk_vars, key_vars,
                    input_stream_buffer, line, host_vars, ghost_vars >>

\* handle_uart up to line 111.
handle_uart ==
    /\ pc = "handle_uart"
    /\ IF rx_status.dma_complete
       THEN /\ IF rx_status.receiving_len THEN HandleUartLen
               ELSE IF rx_status.receiving_pb THEN HandleUartPb
               ELSE UNCHANGED << rx_status, rx_dma, uart_status >>
            /\ pc' = "hu_clear"
       ELSE /\ pc' = "handle_commands"
            /\ UNCHANGED << rx_status, rx_dma, uart_status >>
    /\ UNCHANGED << pipeline_vars, current_cmd, rx_msg, tx_msg, chunk_vars, key_vars,
                    input_stream_buffer, line, tx_hw_vars, host_vars, ghost_vars >>

\* handle_uart line 112: rx_status.dma_complete = false.
handle_uart_clear ==
    /\ pc = "hu_clear"
    /\ rx_status' = [ rx_status EXCEPT !.dma_complete = FALSE ]
    /\ pc' = "handle_commands"
    /\ UNCHANGED << pipeline_vars, current_cmd, rx_msg, tx_msg, chunk_vars, key_vars,
                    uart_status, rx_hw_vars, tx_hw_vars, host_vars, ghost_vars >>

----------------------------------------------------------------------------
(* Message codec and dispatcher: client.c *)

\* EncryptionParams_callback: four varints read into enc_p.encryption_keys.
EncryptionParams_callback(stream) == [ k \in 1..4 |-> stream[k] ]

\* pb_decode of size_bytes bytes of input_stream_buffer into rx_msg.  rx_msg is set to
\* its defaults first; a frame that fails to decode leaves it that way.
pb_decode(buf, size_bytes) ==
    LET f  == buf.frame
        ok == /\ buf.intact
              /\ f.which \in { "encryption_params", "raw_data", "ack", "none" }
              /\ size_bytes = EncodedLen(f)
    IN  [ status |-> ok,
          msg    |-> IF ok THEN [ f EXCEPT !.keys = ZeroKeys ] ELSE ZeroMsg,
          keys   |-> IF ok /\ f.which = "encryption_params"
                     THEN EncryptionParams_callback(f.keys)
                     ELSE enc_p.encryption_keys ]

\* pb_encode of a MyMessage: the active member of the payload union only.
pb_encode(m) ==
    CASE m.which = "ack"      -> AckMsg
      [] m.which = "raw_data" ->
            [ ZeroMsg EXCEPT !.which = "raw_data", !.stat = m.stat, !.chunk_no = m.chunk_no,
                             !.base_address = m.base_address, !.size = m.size,
                             !.data = m.data ]
      [] OTHER                -> ZeroMsg

\* Faulty variant: the shift is done in 32 bits and the upper word is lost.
CONCAT_KEYS_Truncated(x, y) == [ msb |-> 0, lsb |-> y ]

\* encrypt.c: CONCAT_KEYS(x,y), a 64-bit value written as its two 32-bit words:
\* ((uint64_t)x << 32) masked to the upper word, or-ed with (uint64_t)y masked to
\* the lower word.
CONCAT_KEYS(x, y) == [ msb |-> x, lsb |-> y ]

\* Faulty variant: the words of each pair are concatenated the other way round.
encrypt_set_keys_and_round_swapped(keys, round_nb) ==
    /\ s_keys' = << CONCAT_KEYS(keys[1], keys[2]), CONCAT_KEYS(keys[3], keys[4]) >>
    /\ s_nbrounds' = round_nb

\* encrypt_set_keys_and_round(keys, round_nb); keys[0..3] are keys[1..4] here.
encrypt_set_keys_and_round(keys, round_nb) ==
    /\ s_keys' = << CONCAT_KEYS(keys[2], keys[1]), CONCAT_KEYS(keys[4], keys[3]) >>
    /\ s_nbrounds' = round_nb

\* Faulty variant: no second Ack when the last message sent was an Ack.
send_ack_Once(by) ==
    /\ tx_msg' = [ tx_msg EXCEPT !.which = "ack" ]
    /\ IF tx_msg.which = "ack"
       THEN UNCHANGED tx_hw_vars
       ELSE UartWriteStart(pb_encode([ tx_msg EXCEPT !.which = "ack" ]), by)

\* send_ack up to the start of the payload transmit.
send_ack(by) ==
    /\ tx_msg' = [ tx_msg EXCEPT !.which = "ack" ]
    /\ UartWriteStart(pb_encode([ tx_msg EXCEPT !.which = "ack" ]), by)

\* Faulty variant: the RawData branch does not start the pipeline.
ParseRawDataCmd_None == "NONE"

\* Line 216: the value the RawData branch writes to current_cmd.
ParseRawDataCmd == "ENCRYPT"

\* Faulty variant: the default branch leaves current_cmd as it is.
ParseDefaultCmd_Kept == current_cmd

\* Line 219: the value the default branch writes to current_cmd.
ParseDefaultCmd == "NONE"

\* handle_commands: client_parse_msg(rx_status.xfer_len) when a command is ready.
\* The EncryptionParams branch runs up to the start of send_ack's payload transmit.
client_parse_msg ==
    LET d == pb_decode(input_stream_buffer, rx_status.xfer_len) IN
    /\ pc = "handle_commands"
    /\ rx_status.command_ready
    /\ rx_msg' = d.msg
    /\ IF ~d.status
       THEN /\ enc_p' = [ enc_p EXCEPT !.encryption_keys = d.keys ]
            /\ rx_status' = [ rx_status EXCEPT !.command_ready = FALSE ]
            /\ pc' = "process_encryption"
            /\ UNCHANGED << rx_ready, current_cmd, tx_msg, s_keys, s_nbrounds, tx_hw_vars,
                            decoded_seq >>
       ELSE IF d.msg.which = "encryption_params"
       THEN /\ enc_p' = [ encryption_keys |-> d.keys, encryption_rounds |-> d.msg.nb_rounds ]
            /\ encrypt_set_keys_and_round(d.keys, d.msg.nb_rounds)
            /\ send_ack("parse")
            /\ pc' = "parse_rts"
            /\ UNCHANGED << rx_ready, current_cmd, rx_status, decoded_seq >>
       ELSE IF d.msg.which = "raw_data"
       THEN /\ rx_ready' = TRUE
            /\ current_cmd' = ParseRawDataCmd
            /\ decoded_seq' = Append(decoded_seq, d.msg.chunk_no)
            /\ rx_status' = [ rx_status EXCEPT !.command_ready = FALSE ]
            /\ pc' = "process_encryption"
            /\ UNCHANGED << enc_p, tx_msg, s_keys, s_nbrounds, tx_hw_vars >>
       ELSE /\ current_cmd' = ParseDefaultCmd
            /\ rx_status' = [ rx_status EXCEPT !.command_ready = FALSE ]
            /\ pc' = "process_encryption"
            /\ UNCHANGED << rx_ready, enc_p, tx_msg, s_keys, s_nbrounds, tx_hw_vars,
                            decoded_seq >>
    /\ UNCHANGED << processing_done, rx_shadow_buffer_ready, tx_shadow_buffer_ready,
                    chunk_vars, uart_status, rx_hw_vars, host_vars, staged_seq,
                    rx_shadow_chunks, tx_shadow_chunks, drained >>

\* The rest of the EncryptionParams branch: uart_write_packet line 35, then
\* current_cmd = NONE, and handle_commands clears command_ready.
client_parse_msg_rts ==
    /\ pc = "parse_rts"
    /\ uart_status' = [ uart_status EXCEPT !.rts = FALSE ]
    /\ current_cmd' = "NONE"
    /\ rx_status' = [ rx_status EXCEPT !.command_ready = FALSE ]
    /\ pc' = "process_encryption"
    /\ UNCHANGED << pipeline_vars, rx_msg, tx_msg, chunk_vars, key_vars, rx_hw_vars,
                    tx_hw_vars, host_vars, ghost_vars >>

\* handle_commands with no command ready: straight to process_encryption.
handle_commands_idle ==
    /\ pc = "handle_commands"
    /\ ~rx_status.command_ready
    /\ pc' = "process_encryption"
    /\ UNCHANGED << pipeline_vars, current_cmd, rx_msg, tx_msg, chunk_vars, key_vars,
                    rx_status, uart_status, rx_hw_vars, tx_hw_vars, host_vars, ghost_vars >>

----------------------------------------------------------------------------
(* Cipher invocation: encrypt.c *)

\* encrypt_encrypt's length for the hardware transfer.
len_aligned(len) == ((len \div 8) + 1) * 8

\* Faulty variant: the asserts are compiled out.
encrypt_asserts_Off(real_life_address) == TRUE

\* The asserts of encrypt_encrypt; src and dst are the two shadow buffers, both
\* declared __ALIGNED(8).
encrypt_asserts(real_life_address) == real_life_address % 8 = 0

\* Faulty variant: the destination address is not given to the cipher.
encrypt_encrypt_NoTweak(src, len, real_life_address) ==
    [ id |-> src.id, enc |-> TRUE, key |-> s_keys, addr |-> 0, len |-> len_aligned(len) ]

\* encrypt_encrypt(dst, src, len, real_life_address): what dst holds afterwards, the
\* cipher having been programmed with s_keys, real_life_address and len_aligned.
encrypt_encrypt(src, len, real_life_address) ==
    [ id |-> src.id, enc |-> TRUE, key |-> s_keys, addr |-> real_life_address,
      len |-> len_aligned(len) ]

----------------------------------------------------------------------------
(* Encryption pipeline: client.c, process_encryption *)

\* Faulty variant: the Stage step does not look at rx_shadow_buffer_ready.
StageGuard_NoShadowCheck == rx_ready

\* Line 232.
StageGuard == rx_ready /\ rx_shadow_buffer_ready

\* Faulty variant: the Dispatch guard does not look at tx_shadow_buffer_ready.
DispatchGuard_NoTxShadow(rx_shadow) == (~rx_shadow) /\ uart_status.rts

\* Lines 257-259, rx_shadow being rx_shadow_buffer_ready as the Stage step left it.
DispatchGuard(rx_shadow) == (~rx_shadow) /\ tx_shadow_buffer_ready /\ uart_status.rts

\* Line 276.
CompleteGuard == processing_done /\ uart_status.rts

\* Faulty variant: is_last is never set.
StageChunk_NeverLast(m, gid) ==
    [ chunk_no |-> m.chunk_no, base_addr |-> m.base_address, chunk_size |-> m.size,
      is_last |-> FALSE, gid |-> gid ]

\* buffered_chunk as the Stage step builds it from rx_msg (lines 240-251).
StageChunk(m, gid) ==
    [ chunk_no |-> m.chunk_no, base_addr |-> m.base_address, chunk_size |-> m.size,
      is_last |-> (m.stat = "LAST_CHUNK"), gid |-> gid ]

\* Faulty variant: the Stage step leaves rx_ready set.
StageRxReady_Kept == TRUE

\* Line 253: the value the Stage step writes to rx_ready.
StageRxReady == FALSE

\* The Stage body (lines 234-255).
Stage ==
    LET gid == Len(staged_seq) + 1 IN
    /\ rx_buffered_raw_data' = [ size |-> rx_msg.size, data |-> rx_msg.data ]
    /\ buffered_chunk' = StageChunk(rx_msg, gid)
    /\ rx_ready' = StageRxReady
    /\ rx_shadow_buffer_ready' = FALSE
    /\ uart_status' = [ uart_status EXCEPT !.rtr = TRUE ]
    /\ staged_seq' = Append(staged_seq, rx_msg)
    /\ rx_shadow_chunks' = rx_shadow_chunks \cup { gid }

\* Faulty variant: the pipeline runs whatever current_cmd is.
PipelineIdle_Never == FALSE

\* Lines 228-231: the call returns at once.
PipelineIdle == current_cmd # "ENCRYPT"

\* process_encryption from its entry to the start of the Dispatch step's Ack
\* transmit (lines 228-263).
process_encryption ==
    /\ pc = "process_encryption"
    /\ IF PipelineIdle
       THEN /\ pc' = "handle_uart"
            /\ UNCHANGED << rx_ready, rx_shadow_buffer_ready, buffered_chunk,
                            rx_buffered_raw_data, uart_status, staged_seq, rx_shadow_chunks,
                            tx_msg, tx_hw_vars >>
       ELSE /\ IF StageGuard
               THEN Stage
               ELSE UNCHANGED << rx_ready, rx_shadow_buffer_ready, buffered_chunk,
                                 rx_buffered_raw_data, uart_status, staged_seq,
                                 rx_shadow_chunks >>
            /\ IF DispatchGuard(rx_shadow_buffer_ready')
               THEN /\ send_ack("dispatch")
                    /\ pc' = "dispatch_rts"
               ELSE /\ pc' = "complete_check"
                    /\ UNCHANGED << tx_msg, tx_hw_vars >>
    /\ UNCHANGED << processing_done, tx_shadow_buffer_ready, current_cmd, rx_msg,
                    current_chunk, tx_buffered_raw_data, key_vars, rx_status, rx_hw_vars,
                    host_vars, decoded_seq, tx_shadow_chunks, drained >>

\* Faulty variant: the Dispatch step leaves tx_shadow_buffer_ready set.
DispatchTxShadow_Kept == tx_shadow_buffer_ready

\* Line 267: the value the Dispatch step writes to tx_shadow_buffer_ready.
DispatchTxShadow == FALSE

\* The rest of the Dispatch step: uart_write_packet line 35, then lines 264-273.
\* A failed assert of encrypt_encrypt stops the firmware.
Dispatch ==
    /\ pc = "dispatch_rts"
    /\ uart_status' = [ uart_status EXCEPT !.rts = FALSE ]
    /\ current_chunk' = buffered_chunk
    /\ tx_shadow_buffer_ready' = DispatchTxShadow
    /\ tx_shadow_chunks' = tx_shadow_chunks \cup { buffered_chunk.gid }
    /\ IF encrypt_asserts(buffered_chunk.base_addr)
       THEN /\ tx_buffered_raw_data' =
                   [ size |-> buffered_chunk.chunk_size,
                     data |-> encrypt_encrypt(rx_buffered_raw_data.data,
                                              buffered_chunk.chunk_size,
                                              buffered_chunk.base_addr) ]
            /\ processing_done' = TRUE
            /\ pc' = "complete_check"
       ELSE /\ tx_buffered_raw_data' = [ tx_buffered_raw_data EXCEPT !.size = buffered_chunk.chunk_size ]
            /\ processing_done' = FALSE
            /\ pc' = "assert_failed"
    /\ UNCHANGED << rx_ready, rx_shadow_buffer_ready, current_cmd, rx_msg, tx_msg,
                    buffered_chunk, rx_buffered_raw_data, key_vars, rx_status, rx_hw_vars,
                    tx_hw_vars, host_vars, decoded_seq, staged_seq, rx_shadow_chunks, drained >>

\* Faulty variant: send_raw_data does not set base_address.
ResultMsg_NoBaseAddress ==
    [ tx_msg EXCEPT !.which = "raw_data", !.data = tx_buffered_raw_data.data,
                    !.size = current_chunk.chunk_size, !.chunk_no = current_chunk.chunk_no ]

\* Faulty variant: send_raw_data does not set chunk_no.
ResultMsg_NoChunkNo ==
    [ tx_msg EXCEPT !.which = "raw_data", !.data = tx_buffered_raw_data.data,
                    !.size = current_chunk.chunk_size,
                    !.base_address = current_chunk.base_addr ]

\* tx_msg as send_raw_data fills it from current_chunk (lines 135-138), the payload
\* bytes having been copied from the transmit-shadow buffer (line 281).
ResultMsg ==
    [ tx_msg EXCEPT !.which = "raw_data", !.data = tx_buffered_raw_data.data,
                    !.size = current_chunk.chunk_size, !.chunk_no = current_chunk.chunk_no,
                    !.base_address = current_chunk.base_addr ]

\* Faulty variant: the Complete step leaves tx_shadow_buffer_ready as it is.
CompleteTxShadow_Kept == tx_shadow_buffer_ready

\* Line 282: the value the Complete step writes to tx_shadow_buffer_ready.
CompleteTxShadow == TRUE

\* Faulty variant: the Complete step leaves processing_done set.
CompleteProcessingDone_Kept == processing_done

\* Line 280: the value the Complete step writes to processing_done.
CompleteProcessingDone == FALSE

\* The Complete step up to the start of the result transmit (lines 276-283).
Complete ==
    /\ pc = "complete_check"
    /\ IF CompleteGuard
       THEN /\ rx_shadow_buffer_ready' = TRUE
            /\ processing_done' = CompleteProcessingDone
            /\ tx_shadow_buffer_ready' = CompleteTxShadow
            /\ tx_msg' = ResultMsg
            /\ UartWriteStart(pb_encode(ResultMsg), "complete")
            /\ rx_shadow_chunks' = rx_shadow_chunks \ { current_chunk.gid }
            /\ tx_shadow_chunks' = tx_shadow_chunks \ { current_chunk.gid }
            /\ pc' = "complete_rts"
       ELSE /\ pc' = "handle_uart"
            /\ UNCHANGED << rx_shadow_buffer_ready, processing_done, tx_shadow_buffer_ready,
                            tx_msg, tx_hw_vars, rx_shadow_chunks, tx_shadow_chunks >>
    /\ UNCHANGED << rx_ready, current_cmd, rx_msg, chunk_vars, key_vars, rx_status,
                    uart_status, rx_hw_vars, host_vars, decoded_seq, staged_seq, drained >>

\* Faulty variant: the key is cleared when the last chunk has completed.
Complete_rts_ClearsKeys ==
    /\ pc = "complete_rts"
    /\ uart_status' = [ uart_status EXCEPT !.rts = FALSE ]
    /\ drained' = IF current_chunk.is_last THEN Append(drained, current_chunk.gid) ELSE drained
    /\ s_keys' = IF current_chunk.is_last THEN NoKey ELSE s_keys
    /\ pc' = "handle_uart"
    /\ UNCHANGED << pipeline_vars, current_cmd, rx_msg, tx_msg, chunk_vars, enc_p, s_nbrounds,
                    rx_status, rx_hw_vars, tx_hw_vars, host_vars, decoded_seq, staged_seq,
                    rx_shadow_chunks, tx_shadow_chunks >>

\* The rest of the Complete step: uart_write_packet line 35, then lines 285-290.
Complete_rts ==
    /\ pc = "complete_rts"
    /\ uart_status' = [ uart_status EXCEPT !.rts = FALSE ]
    /\ drained' = IF current_chunk.is_last THEN Append(drained, current_chunk.gid) ELSE drained
    /\ pc' = "handle_uart"
    /\ UNCHANGED << pipeline_vars, current_cmd, rx_msg, tx_msg, chunk_vars, key_vars,
                    rx_status, rx_hw_vars, tx_hw_vars, host_vars, decoded_seq, staged_seq,
                    rx_shadow_chunks, tx_shadow_chunks >>

----------------------------------------------------------------------------
\* The main loop: handle_uart(); handle_commands(); again and again.
MainLoop ==
    \/ client_rx_command_len
    \/ handle_uart
    \/ handle_uart_clear
    \/ client_parse_msg
    \/ client_parse_msg_rts
    \/ handle_commands_idle
    \/ process_encryption
    \/ Dispatch
    \/ Complete
    \/ Complete_rts

Next ==
    \/ MainLoop
    \/ HAL_UART_RxCpltCallback
    \/ HAL_UART_TxCpltCallback
    \/ HostSend

Spec == Init /\ [][Next]_vars

\* The loop keeps running and every started transfer completes.
SpecLive ==
    /\ Init /\ [][Next]_vars
    /\ WF_vars(MainLoop)
    /\ WF_vars(HAL_UART_TxCpltCallback)
    /\ WF_vars(HAL_UART_RxCpltCallback)

----------------------------------------------------------------------------
(* Properties *)

\* The result frames handed to uart_write_packet by the Complete step, in order.
Results == SelectSeq(tx_log, LAMBDA e : e.by = "complete")

\* The main loop is between line 34 and line 35 of uart_write_packet.
InWriteWindow == pc \in { "parse_rts", "dispatch_rts", "complete_rts" }

\* C1: each shadow buffer holds at most one chunk: between the Stage step of a chunk
\* and the Complete step of that chunk no other chunk is staged, and between a
\* Dispatch step and its Complete step no other chunk is dispatched.
C1_OneChunkPerShadow ==
    /\ Cardinality(rx_shadow_chunks) <= 1
    /\ Cardinality(tx_shadow_chunks) <= 1

\* C1 witness: a second chunk sits in the receive-shadow buffer after the first one
\* has been staged, dispatched and completed.
C1_Witness ==
    /\ Len(staged_seq) = 2
    /\ rx_shadow_chunks = { 2 }
    /\ Len(Results) >= 1

\* Position of a chunk in the order of decoding.
DecodedAt(c) == CHOOSE i \in 1..Len(decoded_seq) : decoded_seq[i] = c
Decoded == { decoded_seq[i] : i \in 1..Len(decoded_seq) }

\* A RawData result frame for chunk c has been transmitted completely.
ResultOnWire(c) ==
    \E i \in 1..Len(wire) :
        wire[i].u = "pb" /\ wire[i].frame.which = "raw_data" /\ wire[i].frame.chunk_no = c

\* C2: with a host that waits for each Ack, every RawData frame decoded is eventually
\* answered by its result frame.
C2_EveryChunkAnswered ==
    \A c \in 1..MaxFrames : (c \in Decoded) ~> (~host_ok \/ ResultOnWire(c))

\* C3: the k-th result frame carries chunk_no, base_address and payload size of the
\* k-th message staged, whatever was decoded in between.
C3_DescriptorCarried ==
    \A k \in 1..Len(Results) :
        /\ k <= Len(staged_seq)
        /\ Results[k].frame.which = "raw_data"
        /\ Results[k].frame.chunk_no = staged_seq[k].chunk_no
        /\ Results[k].frame.base_address = staged_seq[k].base_address
        /\ Results[k].frame.size = staged_seq[k].size

\* C3 witness: the result of chunk 1 is handed to the transport after a later frame
\* has been decoded over rx_msg.
C3_Witness ==
    /\ pc = "complete_rts"
    /\ Len(Results) = 1
    /\ Results[1].frame.chunk_no = 1
    /\ rx_msg.chunk_no # 1
    /\ Len(decoded_seq) >= 2

\* C4: the chunks reported by result frames come in the order in which their RawData
\* frames were decoded.
C4_HostOrder ==
    \A i, j \in 1..Len(Results) :
        ( /\ i < j
          /\ Results[i].frame.chunk_no \in Decoded
          /\ Results[j].frame.chunk_no \in Decoded )
        => DecodedAt(Results[i].frame.chunk_no) < DecodedAt(Results[j].frame.chunk_no)

\* C4 witness: two chunks decoded one after the other have both been reported.
C4_Witness ==
    /\ Len(Results) = 2
    /\ Results[1].frame.chunk_no \in Decoded
    /\ Results[2].frame.chunk_no \in Decoded
    /\ Results[1].frame.chunk_no # Results[2].frame.chunk_no

\* A step that arms a receive transfer (client_rx_command_len or handle_uart).
ArmsReceive == rx_dma' # rx_dma /\ rx_dma' # 0

\* C5 as stated: whenever a receive is armed, rtr is not true with
\* rx_shadow_buffer_ready false.
C5_NoRtrWhileShadowBusy ==
    [][ ArmsReceive => ~(uart_status.rtr /\ ~rx_shadow_buffer_ready) ]_vars

\* C5 for a host that sends each frame after the Ack of the previous one.
C5_NoRtrWhileShadowBusy_AckedHost ==
    [][ (ArmsReceive /\ host_ok) => ~(uart_status.rtr /\ ~rx_shadow_buffer_ready) ]_vars

\* C5 witness: handle_uart is about to arm a receive while a chunk sits in the
\* receive-shadow buffer, the host having waited for every Ack.
C5_Witness ==
    /\ pc = "handle_uart"
    /\ rx_status.dma_complete
    /\ rx_dma = 0
    /\ ~rx_shadow_buffer_ready
    /\ host_ok

\* C6: no frame is started by uart_write_packet while rts is false.
C6_RtsGatesEveryWrite == \A i \in 1..Len(tx_log) : tx_log[i].rts

\* C7: no payload receive longer than the receive buffer is armed.
C7_OversizeDropped == rx_dma <= I_STREAM_SIZE_BYTES

\* A step of handle_uart that finds a completed transfer.
HandlesCompletion == pc = "handle_uart" /\ pc' = "hu_clear"

\* A step of handle_commands that calls client_parse_msg.
ParsesCommand == pc = "handle_commands" /\ rx_status.command_ready /\ pc' # pc

\* C8: after client_rx_command_len exactly one of receiving_len / receiving_pb is
\* true; a completed length transfer is read as L and a transfer of L bytes is armed;
\* a completed payload transfer sets command_ready and re-arms a 4-byte transfer in
\* the same step; client_parse_msg gets the length of the frame just received.
C8_FramingAlternates ==
    [][ /\ (pc # "start") => (rx_status.receiving_len # rx_status.receiving_pb)
        /\ (HandlesCompletion /\ rx_status.receiving_len) =>
              /\ rx_status'.xfer_len = input_stream_buffer.hdr
              /\ rx_dma' = input_stream_buffer.hdr
              /\ rx_status'.receiving_pb /\ ~rx_status'.receiving_len
              /\ rx_status'.command_ready = rx_status.command_ready
        /\ (HandlesCompletion /\ rx_status.receiving_pb) =>
              /\ rx_status'.command_ready
              /\ rx_dma' = 4
              /\ rx_status'.receiving_len /\ ~rx_status'.receiving_pb
              /\ rx_status'.xfer_len = rx_status.xfer_len
        /\ ParsesCommand =>
              rx_status.xfer_len = EncodedLen(input_stream_buffer.frame)
      ]_vars

\* C8 witness: a second frame has gone through both phases and is ready to parse.
C8_Witness ==
    /\ pc = "handle_commands"
    /\ rx_status.command_ready
    /\ host_sent >= 2
    /\ Len(line) = 2 * (host_sent - 2)
    /\ rx_status.receiving_len

\* A step of client_parse_msg on a well-formed EncryptionParams frame.
DispatchesEncryptionParams ==
    /\ ParsesCommand
    /\ input_stream_buffer.intact
    /\ input_stream_buffer.frame.which = "encryption_params"
    /\ rx_status.xfer_len = EncodedLen(input_stream_buffer.frame)

C9_RtsTracksTransmit ==
    /\ ~InWriteWindow => (uart_status.rts = ~tx_dma.busy)
    /\ \A i \in 1..Len(wire) :
          wire[i].u = "pb" => (i > 1 /\ wire[i-1].u = "len" /\ wire[i-1].len = wire[i].len)

\* A step of client_parse_msg on a well-formed RawData frame.
DispatchesRawData ==
    /\ ParsesCommand
    /\ input_stream_buffer.intact
    /\ input_stream_buffer.frame.which = "raw_data"
    /\ rx_status.xfer_len = EncodedLen(input_stream_buffer.frame)

\* C11: dispatching a decoded RawData sets rx_ready and current_cmd = ENCRYPT and
\* nothing else of the relay: no frame is handed to the transport, nothing is staged
\* or encrypted, the other pipeline flags, the chunk descriptors, the shadow buffers
\* and the key are as before; the pipeline runs in the process_encryption call after.
C11_RawDataDispatchDefers ==
    [][ DispatchesRawData =>
          /\ rx_ready' /\ current_cmd' = "ENCRYPT"
          /\ pc' = "process_encryption"
          /\ UNCHANGED << processing_done, rx_shadow_buffer_ready, tx_shadow_buffer_ready >>
          /\ UNCHANGED << chunk_vars, key_vars, tx_msg, tx_hw_vars >>
          /\ UNCHANGED << staged_seq, rx_shadow_chunks, tx_shadow_chunks, drained >>
      ]_vars

\* C11 witness: a RawData frame has just been dispatched while an earlier chunk is
\* in the receive-shadow buffer and a key is installed.
C11_Witness ==
    /\ pc = "process_encryption"
    /\ rx_msg.which = "raw_data"
    /\ rx_ready /\ current_cmd = "ENCRYPT"
    /\ ~rx_shadow_buffer_ready
    /\ s_keys # NoKey
    /\ Len(decoded_seq) = 2

\* A step of client_parse_msg whose pb_decode fails.
FailsDecode ==
    /\ ParsesCommand
    /\ ~pb_decode(input_stream_buffer, rx_status.xfer_len).status

\* C12: a frame that fails to decode is discarded: no frame is handed to the
\* transport and current_cmd is NONE afterwards, whatever it was.
C12_DecodeFailureResetsCmd ==
    [][ FailsDecode => (current_cmd' = "NONE" /\ tx_log' = tx_log) ]_vars

\* A step of client_parse_msg on a decoded message that is neither EncryptionParams
\* nor RawData.
DispatchesOther ==
    /\ ParsesCommand
    /\ pb_decode(input_stream_buffer, rx_status.xfer_len).status
    /\ input_stream_buffer.frame.which \notin { "encryption_params", "raw_data" }

\* C13: dispatching a decoded message of any other variant sets current_cmd = NONE
\* and hands no frame to the transport.
C13_OtherVariantIgnored ==
    [][ DispatchesOther =>
          /\ current_cmd' = "NONE"
          /\ UNCHANGED << tx_msg, tx_hw_vars >>
          /\ pc' = "process_encryption"
      ]_vars

\* C13 witness: a message with no payload member has been dispatched while
\* current_cmd was ENCRYPT with a chunk staged.
C13_Witness ==
    /\ pc = "process_encryption"
    /\ rx_msg = ZeroMsg
    /\ input_stream_buffer.intact /\ input_stream_buffer.frame = ZeroMsg
    /\ current_cmd = "NONE"
    /\ ~rx_status.command_ready
    /\ Len(staged_seq) >= 1

\* C14: the key pair and the round count the cipher uses change only in the
\* dispatch of a decoded EncryptionParams; no other step writes or clears them.
C14_KeysChangeOnlyByParams ==
    [][ (s_keys' # s_keys \/ s_nbrounds' # s_nbrounds) => DispatchesEncryptionParams ]_vars

\* C14 witness: a LAST_CHUNK has completed and switched the LEDs off, a later frame
\* has been parsed, and the key installed before is still there.
C14_Witness ==
    /\ drained # << >>
    /\ s_keys = << [ msb |-> 2, lsb |-> 1 ], [ msb |-> 4, lsb |-> 3 ] >>
    /\ s_nbrounds = 10
    /\ host_sent = 3 /\ line = << >>
    /\ pc = "process_encryption"
    /\ rx_msg.which # "encryption_params"

\* The dispatch of an EncryptionParams frame right after the dispatch of an
\* identical one.
RepeatsEncryptionParams ==
    /\ DispatchesEncryptionParams
    /\ rx_msg.which = "encryption_params"
    /\ rx_msg.nb_rounds = input_stream_buffer.frame.nb_rounds
    /\ enc_p = [ encryption_keys   |-> input_stream_buffer.frame.keys,
                 encryption_rounds |-> input_stream_buffer.frame.nb_rounds ]

WordsOf(k) == << k[1].lsb, k[1].msb, k[2].lsb, k[2].msb >>

C17_DrainedIffLastChunk ==
    [][ /\ (pc = "complete_rts" /\ pc' # pc) =>
              ( (drained' # drained) <=>
                   (staged_seq[current_chunk.gid].stat = "LAST_CHUNK") )
        /\ (drained' # drained) =>
              /\ pc = "complete_rts"
              /\ drained' = Append(drained, current_chunk.gid)
              /\ Len(Results) = current_chunk.gid
              /\ Results[Len(Results)].frame.chunk_no = staged_seq[current_chunk.gid].chunk_no
      ]_vars

\* C17 witness: of two chunks completed, the first was not a last chunk and the
\* second was.
C17_Witness ==
    /\ Len(Results) = 2
    /\ drained = << 2 >>
    /\ staged_seq[1].stat = "FIRST_CHUNK"
    /\ staged_seq[2].stat = "LAST_CHUNK"

\* Which result frame the i-th uart_write_packet call carried.
ResultIndex(i) == Cardinality({ j \in 1..i : tx_log[j].by = "complete" })

\* C18: once the result of a LAST_CHUNK has been handed to the transport, a RawData
\* frame decoded afterwards is not staged as long as no EncryptionParams has been
\* dispatched.
C18_NoRawDataAfterLast ==
    \A i \in 1..Len(tx_log), s \in 1..Len(staged_seq) :
        ~ ( /\ tx_log[i].by = "complete"
            /\ staged_seq[ResultIndex(i)].stat = "LAST_CHUNK"
            /\ \A j \in (i + 1)..Len(tx_log) : tx_log[j].by # "parse"
            /\ DecodedAt(staged_seq[s].chunk_no) > tx_log[i].decoded )

\* C19: a call of process_encryption that runs the Stage body does not run the
\* Dispatch body as well.
C19_OneStagePerCall ==
    [][ (pc = "process_encryption" /\ staged_seq' # staged_seq) => pc' # "dispatch_rts" ]_vars

\* C20: at the start of a call of process_encryption at most one of the three
\* guards holds.
C20_GuardsExclusive ==
    (pc = "process_encryption") =>
        /\ ~(StageGuard /\ DispatchGuard(rx_shadow_buffer_ready))
        /\ ~(StageGuard /\ CompleteGuard)
        /\ ~(DispatchGuard(rx_shadow_buffer_ready) /\ CompleteGuard)

\* C20 witness: a call starts with the Complete guard true while a second RawData
\* waits for the receive-shadow buffer.
C20_Witness ==
    /\ pc = "process_encryption"
    /\ current_cmd = "ENCRYPT"
    /\ CompleteGuard
    /\ rx_ready /\ ~rx_shadow_buffer_ready

\* The Dispatch step in which encrypt_encrypt runs and returns.
CipherReturns == pc = "dispatch_rts" /\ pc' = "complete_check"

\* The smallest multiple of 8 that is at least n.
RoundUp8(n) == CHOOSE k \in n..(n + 7) : k % 8 = 0

\* C21: the length the cipher is programmed with is the chunk length rounded up to
\* the next multiple of 8, a multiple of 8 being left as it is.
C21_LengthRoundedUp ==
    [][ CipherReturns =>
          tx_buffered_raw_data'.data.len = RoundUp8(buffered_chunk.chunk_size) ]_vars

\* C22: encrypt_encrypt programs the cipher only for an 8-byte aligned destination;
\* for any other it stops the firmware with the transmit-shadow buffer untouched,
\* processing_done false and no result frame, then or later.
C22_UnalignedFailsFast ==
    [][ /\ (pc = "dispatch_rts" /\ pc' # pc) =>
              IF buffered_chunk.base_addr % 8 = 0
              THEN /\ pc' = "complete_check"
                   /\ processing_done'
                   /\ tx_buffered_raw_data'.data.enc
                   /\ tx_buffered_raw_data'.data.addr = buffered_chunk.base_addr
              ELSE /\ pc' = "assert_failed"
                   /\ ~processing_done'
                   /\ tx_buffered_raw_data'.data = tx_buffered_raw_data.data
                   /\ UNCHANGED << key_vars, tx_hw_vars >>
        /\ (pc = "assert_failed") =>
              /\ pc' = pc
              /\ ~processing_done'
              /\ UNCHANGED << pipeline_vars, chunk_vars, tx_msg, tx_log >>
      ]_vars

\* C22 witness: the firmware has stopped in the asserts on the second chunk, whose
\* Ack has gone out, after the first chunk had been encrypted and reported.
C22_Witness ==
    /\ pc = "assert_failed"
    /\ current_chunk.base_addr = UnalignedPlacement[1]
    /\ current_chunk.gid = 2
    /\ Len(Results) = 1
    /\ tx_buffered_raw_data.data.id = 1
    /\ ~tx_dma.busy
    /\ wire[Len(wire)].frame = AckMsg

\* What the host gets when it decodes a frame of the relay.
DecodeFrame(f) ==
    pb_decode([ hdr |-> 0, frame |-> f, intact |-> TRUE ], EncodedLen(f))

\* C23: every result frame the relay builds decodes to the status, chunk_no,
\* base_address and bytes of the chunk it reports, and every Ack to an Ack.
C23_SentFramesRoundTrip ==
    /\ \A k \in 1..Len(Results) :
          LET d == DecodeFrame(Results[k].frame) IN
          /\ d.status
          /\ d.msg.which = "raw_data"
          /\ d.msg.stat = staged_seq[k].stat
          /\ d.msg.chunk_no = staged_seq[k].chunk_no
          /\ d.msg.base_address = staged_seq[k].base_address
          /\ d.msg.size = staged_seq[k].size
          /\ d.msg.data.id = staged_seq[k].data.id
    /\ \A i \in 1..Len(tx_log) :
          tx_log[i].by # "complete" =>
              (DecodeFrame(tx_log[i].frame).status /\ DecodeFrame(tx_log[i].frame).msg = AckMsg)

\* A step in which HAL_UART_RxCpltCallback runs: the armed receive is over.
RxCompletes == rx_dma # 0 /\ rx_dma' = 0

\* A step in which HAL_UART_TxCpltCallback runs: the payload transmit is over.
TxCompletes == tx_dma.busy /\ ~tx_dma'.busy

\* C24: HAL_UART_RxCpltCallback writes dma_complete and rtr and nothing else,
\* HAL_UART_TxCpltCallback writes rts and nothing else; the main loop stays where
\* it is, and pipeline flags, current_cmd, messages, chunk descriptors, shadow
\* buffers and key are as before.
C24_CallbacksOnlySetFlags ==
    [][ /\ RxCompletes =>
              /\ rx_status' = [ rx_status EXCEPT !.dma_complete = TRUE ]
              /\ uart_status' = [ uart_status EXCEPT !.rtr = FALSE ]
        /\ TxCompletes =>
              /\ uart_status' = [ uart_status EXCEPT !.rts = TRUE ]
              /\ rx_status' = rx_status
        /\ (RxCompletes \/ TxCompletes) =>
              /\ pc' = pc
              /\ UNCHANGED << pipeline_vars, current_cmd, rx_msg, tx_msg, chunk_vars, key_vars >>
              /\ UNCHANGED << tx_log, decoded_seq, staged_seq, drained >>
      ]_vars

\* C24 witness: both callbacks have run while a chunk was in the cipher stage: the
\* Ack of the chunk is out and the next frame has come in, the main loop being
\* inside process_encryption.
C24_Witness ==
    /\ pc = "complete_check"
    /\ processing_done
    /\ uart_status.rts /\ ~tx_dma.busy
    /\ rx_status.dma_complete /\ ~uart_status.rtr
    /\ Len(tx_log) >= 1 /\ tx_log[Len(tx_log)].by = "dispatch"

\* A step of process_encryption in which the Stage body runs.
Stages == pc = "process_encryption" /\ staged_seq' # staged_seq

\* C25: the Stage body runs only with rx_ready and rx_shadow_buffer_ready true (and
\* current_cmd = ENCRYPT); it leaves in buffered_chunk the chunk_no, base_address
\* and size of rx_msg with is_last true exactly for LAST_CHUNK, rx_ready and
\* rx_shadow_buffer_ready false and rtr true, and does not touch
\* tx_shadow_buffer_ready, processing_done or current_chunk.
C25_StageStep ==
    [][ /\ Stages =>
              /\ rx_ready /\ rx_shadow_buffer_ready /\ current_cmd = "ENCRYPT"
              /\ rx_msg.which = "raw_data"
              /\ buffered_chunk'.chunk_no = rx_msg.chunk_no
              /\ buffered_chunk'.base_addr = rx_msg.base_address
              /\ buffered_chunk'.chunk_size = rx_msg.size
              /\ buffered_chunk'.is_last = (rx_msg.stat = "LAST_CHUNK")
              /\ rx_buffered_raw_data' = [ size |-> rx_msg.size, data |-> rx_msg.data ]
              /\ ~rx_ready' /\ ~rx_shadow_buffer_ready'
              /\ uart_status'.rtr
              /\ UNCHANGED << tx_shadow_buffer_ready, processing_done, current_chunk >>
        /\ (buffered_chunk' # buffered_chunk \/ rx_buffered_raw_data' # rx_buffered_raw_data)
              => Stages
      ]_vars

\* C25 witness: a LAST_CHUNK has been staged while the chunk before it was still in
\* the transmit-shadow buffer.
C25_Witness ==
    /\ Len(staged_seq) = 2
    /\ buffered_chunk.gid = 2 /\ buffered_chunk.is_last
    /\ current_chunk.gid = 1
    /\ ~rx_ready /\ ~rx_shadow_buffer_ready
    /\ uart_status.rtr

\* The step of process_encryption in which the Dispatch body starts, and the Acks
\* the Dispatch body has sent so far.
StartsDispatch == pc = "process_encryption" /\ pc' = "dispatch_rts"
Dispatches == Cardinality({ i \in 1..Len(tx_log) : tx_log[i].by = "dispatch" })

\* C26: the Dispatch body runs only with rx_shadow_buffer_ready false,
\* tx_shadow_buffer_ready true and rts true, once for each staged chunk; it sends one
\* Ack, then copies buffered_chunk to current_chunk and runs the cipher on the
\* staged bytes with destination current_chunk.base_addr, and it ends with
\* tx_shadow_buffer_ready false and processing_done true.
C26_DispatchStep ==
    [][ /\ StartsDispatch =>
              /\ current_cmd = "ENCRYPT"
              /\ ~rx_shadow_buffer_ready' /\ tx_shadow_buffer_ready /\ uart_status.rts
              /\ Dispatches = buffered_chunk'.gid - 1
              /\ Len(tx_log') = Len(tx_log) + 1
              /\ tx_log'[Len(tx_log')].frame = AckMsg
              /\ ~tx_log'[Len(tx_log')].busy
              /\ UNCHANGED << current_chunk, tx_buffered_raw_data, processing_done,
                              tx_shadow_buffer_ready >>
        /\ (pc = "dispatch_rts" /\ pc' # pc) =>
              /\ current_chunk' = buffered_chunk
              /\ ~tx_shadow_buffer_ready'
              /\ tx_log' = tx_log
              /\ UNCHANGED << buffered_chunk, rx_buffered_raw_data, rx_ready,
                              rx_shadow_buffer_ready >>
        /\ CipherReturns =>
              /\ processing_done'
              /\ tx_buffered_raw_data'.size = current_chunk'.chunk_size
              /\ tx_buffered_raw_data'.data.enc
              /\ tx_buffered_raw_data'.data.id = rx_buffered_raw_data.data.id
              /\ tx_buffered_raw_data'.data.addr = current_chunk'.base_addr
        /\ (current_chunk' # current_chunk \/ tx_buffered_raw_data' # tx_buffered_raw_data)
              => pc = "dispatch_rts"
      ]_vars

\* C26 witness: the second chunk has been acknowledged and encrypted for its own
\* destination, which is not that of the first.
C26_Witness ==
    /\ pc = "complete_check"
    /\ processing_done /\ ~tx_shadow_buffer_ready
    /\ current_chunk.gid = 2 /\ Dispatches = 2
    /\ tx_buffered_raw_data.data.enc
    /\ tx_buffered_raw_data.data.addr = current_chunk.base_addr
    /\ staged_seq[1].base_address # current_chunk.base_addr

\* The step of the Complete body that hands the result frame to the transport.
Completes == pc = "complete_check" /\ pc' = "complete_rts"

\* C27: the Complete body runs only with processing_done and rts true and not twice
\* for a chunk; it hands one RawData result frame for current_chunk to the
\* transport, sets both shadow-buffer flags and clears processing_done, and no
\* other step sends a result.
C27_CompleteStep ==
    [][ /\ Completes =>
              /\ processing_done /\ uart_status.rts
              /\ Len(Results) = current_chunk.gid - 1
              /\ Len(tx_log') = Len(tx_log) + 1
              /\ tx_log'[Len(tx_log')].by = "complete"
              /\ tx_log'[Len(tx_log')].frame.which = "raw_data"
              /\ tx_log'[Len(tx_log')].frame.chunk_no = current_chunk.chunk_no
              /\ tx_log'[Len(tx_log')].frame.data = tx_buffered_raw_data.data
              /\ ~tx_log'[Len(tx_log')].busy
              /\ rx_shadow_buffer_ready' /\ tx_shadow_buffer_ready' /\ ~processing_done'
        /\ (pc = "complete_rts" /\ pc' # pc) =>
              /\ UNCHANGED << pipeline_vars, tx_log >>
              /\ pc' = "handle_uart"
        /\ (Len(Results') # Len(Results)) => Completes
      ]_vars

\* C27 witness: two chunks have been completed one after the other and the pipeline
\* is empty again.
C27_Witness ==
    /\ pc = "handle_uart"
    /\ Len(Results) = 2 /\ Dispatches = 2
    /\ Results[1].frame.chunk_no # Results[2].frame.chunk_no
    /\ rx_shadow_buffer_ready /\ tx_shadow_buffer_ready /\ ~processing_done

\* C28: a call of process_encryption with current_cmd other than ENCRYPT returns
\* without changing pipeline flags, rtr, rts, chunk descriptors or shadow buffers,
\* and without sending anything.
C28_IdleIsNoOp ==
    [][ (pc = "process_encryption" /\ current_cmd # "ENCRYPT" /\ pc' # pc) =>
          /\ pc' = "handle_uart"
          /\ UNCHANGED << pipeline_vars, uart_status, chunk_vars, current_cmd >>
          /\ UNCHANGED << tx_msg, tx_hw_vars, staged_seq, drained >>
      ]_vars

\* C28 witness: a call has returned with current_cmd = NONE although an encrypted
\* chunk waits for its Complete step with rts true.
C28_Witness ==
    /\ pc = "handle_uart"
    /\ current_cmd = "NONE"
    /\ rx_msg.which # "raw_data"
    /\ ~rx_status.command_ready
    /\ processing_done /\ uart_status.rts
    /\ tx_shadow_chunks # { }

\* The result frame of a chunk is being transmitted.
ResultInTransmit == tx_dma.busy /\ tx_dma.frame.which = "raw_data"

\* C29: while a result frame is being transmitted it is the result of the chunk
\* completed last, rts is false, and the receive-shadow buffer is free or holds the
\* chunk staged next.
C29_OverlapIsNextChunk ==
    ResultInTransmit =>
        /\ Len(Results) >= 1
        /\ tx_dma.frame.chunk_no = staged_seq[Len(Results)].chunk_no
        /\ \A g \in rx_shadow_chunks : g = Len(Results) + 1
        /\ (~InWriteWindow) => ~uart_status.rts

\* C29 witness: chunk n+1 has been staged in the receive-shadow buffer while the
\* result frame of chunk n is still being transmitted.
C29_Witness ==
    /\ ResultInTransmit
    /\ ~uart_status.rts
    /\ ~rx_shadow_buffer_ready
    /\ rx_shadow_chunks = { Len(Results) + 1 }
    /\ buffered_chunk.gid = current_chunk.gid + 1
    /\ tx_dma.frame.chunk_no = current_chunk.chunk_no
    /\ buffered_chunk.chunk_no # current_chunk.chunk_no
    /\ pc = "handle_uart"

\* C30: the four pipeline flags change only in steps of process_encryption.
C30_FlagsOwnedByPipeline ==
    [][ (pipeline_vars' # pipeline_vars) =>
          pc \in { "process_encryption", "dispatch_rts", "complete_check", "complete_rts" }
      ]_vars

\* The step in which uart_write_packet clears rts (line 35) after it has started a
\* transmit.
EndsWrite == InWriteWindow /\ pc' # pc

\* C31: rtr and rts become true only in a transport completion callback and false
\* only when a transfer in their direction is started.
C31_FlowFlagsByTransport ==
    [][ /\ (~uart_status.rtr /\ uart_status'.rtr) => (RxCompletes \/ TxCompletes)
        /\ (uart_status.rtr /\ ~uart_status'.rtr) => ArmsReceive
        /\ (~uart_status.rts /\ uart_status'.rts) => TxCompletes
        /\ (uart_status.rts /\ ~uart_status'.rts) => EndsWrite
      ]_vars

\* The main loop is between two calls of process_encryption.
BetweenCalls ==
    pc \in { "start", "handle_uart", "hu_clear", "handle_commands", "parse_rts",
             "process_encryption" }

\* C33: between calls of process_encryption the flags rx_shadow_buffer_ready,
\* tx_shadow_buffer_ready and processing_done are (true, true, false),
\* (false, true, false) or (false, false, true).
C33_ShadowFlagTriples ==
    BetweenCalls =>
        << rx_shadow_buffer_ready, tx_shadow_buffer_ready, processing_done >> \in
            { << TRUE, TRUE, FALSE >>, << FALSE, TRUE, FALSE >>, << FALSE, FALSE, TRUE >> }

\* C33 witness: the three triples in turn: a second chunk is staged after the first
\* one has been staged, encrypted and completed.
C33_Witness ==
    /\ pc = "handle_uart"
    /\ Len(Results) = 1 /\ Dispatches = 1
    /\ Len(staged_seq) = 2
    /\ << rx_shadow_buffer_ready, tx_shadow_buffer_ready, processing_done >>
           = << FALSE, TRUE, FALSE >>

\* C34: no receive completion is lost: once the first receive has been armed, a
\* receive that is over has dma_complete set until handle_uart has armed the next.
C34_NoLostRxCompletion ==
    (pc # "start" /\ rx_dma = 0) => rx_status.dma_complete

\* The uart_write_packet calls of the pipeline, in order.
PipelineWrites == SelectSeq(tx_log, LAMBDA e : e.by \in { "dispatch", "complete" })

\* C37: the frames of the pipeline alternate Ack, result, Ack, result: the k-th Ack
\* and the k-th result are those of the k-th chunk staged, each accepted by the
\* transport.
C37_AckResultAlternate ==
    \A i \in 1..Len(PipelineWrites) :
        LET e == PipelineWrites[i] IN
        /\ ~e.busy
        /\ IF i % 2 = 1
           THEN e.by = "dispatch" /\ e.frame = AckMsg
           ELSE /\ e.by = "complete"
                /\ e.frame.which = "raw_data"
                /\ e.frame.chunk_no = staged_seq[i \div 2].chunk_no

\* C37 witness: Ack, result, Ack, result of two chunks, with the Ack of an
\* EncryptionParams somewhere among them.
C37_Witness ==
    /\ Len(PipelineWrites) = 4
    /\ Len(tx_log) = 5
    /\ PipelineWrites[2].frame.chunk_no # PipelineWrites[4].frame.chunk_no

----------------------------------------------------------------------------
(* client_send_raw_data, called on its own after init_uart_pb() and init_pb() *)

\* The arguments of the calls: the enumerators of RawData.Status, chunk numbers, and
\* buffers (ptr, bufsize).
SendStatuses == { "FIRST_CHUNK", "MIDDLE_CHUNK", "LAST_CHUNK" }
SendChunkNos == { 1, 2 }
SendBuffers  == { << Plain(1), 8 >>, << Plain(2), 64 >> }

\* What pb_encode_tag and the pb_encode_varint / pb_encode_fixed32 / pb_encode_string
\* after it write: the field's tag, its wire type, its value and the bytes it takes.
EncodedField(tag, wt, val, bytes) == [ tag |-> tag, wt |-> wt, val |-> val, bytes |-> bytes ]

\* Lines 100-108: the fields client_send_raw_data appends to o_stream.
client_send_raw_data_fields(status, chunk_no, ptr, bufsize) ==
    << EncodedField("stat", "VARINT", "FIRST_CHUNK", 2),
       EncodedField("chunk_no", "32BIT", chunk_no, 5),
       EncodedField("data", "STRING", [ size |-> bufsize, data |-> ptr ],
                    bufsize + (IF bufsize < 128 THEN 2 ELSE 3)) >>

\* What o_stream holds: init_pb empties it, and client_send_raw_data never does, so
\* it holds every field written since.
o_stream_fields == IF tx_log = << >> THEN << >> ELSE tx_log[Len(tx_log)].frame.fields

RECURSIVE FieldBytes(_)
FieldBytes(fs) == IF fs = << >> THEN 0 ELSE fs[1].bytes + FieldBytes(Tail(fs))

\* Lines 98-110, up to and including the HAL_UART_Transmit_DMA of uart_write_packet.
client_send_raw_data(status, chunk_no, ptr, bufsize) ==
    /\ pc = "client_send"
    /\ Len(tx_log) < MaxSends
    /\ LET fs == o_stream_fields \o client_send_raw_data_fields(status, chunk_no, ptr, bufsize)
       IN  UartWriteStart([ which |-> "raw_data_fields", fields |-> fs, len |-> FieldBytes(fs) ],
                          "client_send_raw_data")
    /\ pc' = "client_send_rts"
    /\ UNCHANGED << pipeline_vars, current_cmd, rx_msg, tx_msg, chunk_vars, key_vars,
                    rx_status, uart_status, rx_hw_vars, host_vars, ghost_vars >>

\* uart_write_packet line 35, and the return to the caller.
client_send_raw_data_rts ==
    /\ pc = "client_send_rts"
    /\ uart_status' = [ uart_status EXCEPT !.rts = FALSE ]
    /\ pc' = "client_send"
    /\ UNCHANGED << pipeline_vars, current_cmd, rx_msg, tx_msg, chunk_vars, key_vars,
                    rx_status, rx_hw_vars, tx_hw_vars, host_vars, ghost_vars >>

InitSend ==
    /\ pc = "client_send"
    /\ rx_ready = FALSE
    /\ processing_done = FALSE
    /\ rx_shadow_buffer_ready = TRUE
    /\ tx_shadow_buffer_ready = TRUE
    /\ current_cmd = "NONE"
    /\ rx_msg = ZeroMsg
    /\ tx_msg = ZeroMsg
    /\ buffered_chunk = ZeroChunk
    /\ current_chunk = ZeroChunk
    /\ enc_p = [ encryption_keys |-> ZeroKeys, encryption_rounds |-> 0 ]
    /\ s_keys = NoKey
    /\ s_nbrounds = 0
    /\ rx_buffered_raw_data = [ size |-> 0, data |-> NoData ]
    /\ tx_buffered_raw_data = [ size |-> 0, data |-> NoData ]
    /\ rx_status = [ receiving_len |-> FALSE, receiving_pb |-> FALSE, dma_complete |-> FALSE,
                     command_ready |-> FALSE, xfer_len |-> 0 ]
    /\ uart_status = [ rtr |-> TRUE, rts |-> TRUE ]
    /\ input_stream_buffer = [ hdr |-> 0, frame |-> NoFrame, intact |-> FALSE ]
    /\ rx_dma = 0
    /\ tx_dma = [ busy |-> FALSE, frame |-> NoFrame ]
    /\ line = << >>
    /\ wire = << >>
    /\ host_sent = 0
    /\ host_ok = TRUE
    /\ tx_log = << >>
    /\ decoded_seq = << >>
    /\ staged_seq = << >>
    /\ rx_shadow_chunks = { }
    /\ tx_shadow_chunks = { }
    /\ drained = << >>

NextSend ==
    \/ \E status \in SendStatuses, chunk_no \in SendChunkNos, b \in SendBuffers :
          client_send_raw_data(status, chunk_no, b[1], b[2])
    \/ client_send_raw_data_rts
    \/ HAL_UART_TxCpltCallback

SpecSend == InitSend /\ [][NextSend]_vars

\* The tags of a frame's fields, in the order they were written.
FieldTags(fs) == [ i \in 1..Len(fs) |-> fs[i].tag ]

\* C32: client_send_raw_data(status, chunk_no, ptr, bufsize) emits one frame whose
\* fields are status, chunk_no, base_address, data in this order, with the status,
\* chunk_no and data passed, for each of the three statuses.
C32_SendRawDataFields ==
    [][ \A status \in SendStatuses, chunk_no \in SendChunkNos, b \in SendBuffers :
          client_send_raw_data(status, chunk_no, b[1], b[2]) =>
            LET e  == tx_log'[Len(tx_log')]
                fs == e.frame.fields
            IN  /\ ~e.busy
                /\ FieldTags(fs) = << "stat", "chunk_no", "base_address", "data" >>
                /\ fs[1].val = status
                /\ fs[2].val = chunk_no
                /\ fs[4].val = [ size |-> b[2], data |-> b[1] ]
      ]_vars

----------------------------------------------------------------------------
(* The relay with a host that sends each RawData frame only after the Ack of the
   previous RawData frame *)

\* The uart_write_packet calls the transport accepted, in order: the k-th of them is
\* the k-th frame on the wire.
Accepted == SelectSeq(tx_log, LAMBDA e : ~e.busy)
FramesOnWire == Cardinality({ i \in 1..Len(wire) : wire[i].u = "pb" })

\* Acks of RawData frames (those of the Dispatch step) the host has received.
RdAcksReceived == Cardinality({ i \in 1..FramesOnWire : Accepted[i].by = "dispatch" })

\* A RawData frame has been received and client_parse_msg has not been called for it:
\* its payload transfer is over and handle_uart has not seen it, or the command is
\* ready.
RawDataUnparsed ==
    /\ input_stream_buffer.frame.which = "raw_data"
    /\ \/ rx_status.receiving_pb /\ rx_dma = 0
       \/ rx_status.command_ready

\* No RawData frame is on its way to the relay or waits to be parsed, and every
\* RawData the relay has decoded has been acknowledged to the host.
RdAcked ==
    /\ \A i \in 1..Len(line) : line[i].frame.which # "raw_data"
    /\ ~RawDataUnparsed
    /\ RdAcksReceived = Len(decoded_seq)

\* The host writes a frame; a RawData frame only when the previous one is acknowledged.
HostSendRd ==
    /\ HostSend
    /\ line'[Len(line')].frame.which = "raw_data" => RdAcked

NextRd ==
    \/ MainLoop
    \/ HAL_UART_RxCpltCallback
    \/ HAL_UART_TxCpltCallback
    \/ HostSendRd

SpecRd == Init /\ [][NextRd]_vars

C36_FrameIntactAtParse ==
    [][ (host_ok /\ ParsesCommand) => input_stream_buffer.intact ]_vars

\* C36 witness: the second frame of such a host is about to be parsed, the 4-byte
\* receive of the next length being armed into the buffer that holds it.
C36_Witness ==
    /\ host_ok /\ host_sent = 2 /\ line = << >>
    /\ pc = "handle_commands" /\ rx_status.command_ready
    /\ rx_dma = 4
    /\ input_stream_buffer.intact
    /\ input_stream_buffer.frame.chunk_no = 2

====
